---- MODULE Spec2Model ----
(***************************************************************************)
(* A model of the IoTSensorSync time-series store (src/data_storage.py,    *)
(* class DataStorage) and of the threads that call it, followed by the     *)
(* reading validator (src/utils.py), the ingest path (src/app.py), the     *)
(* cleaning pipeline (src/data_processor.py) and the analytics engine      *)
(* (src/analytics.py), each with a specification of its own.               *)
(*                                                                         *)
(* A DataFrame is a heap object; self._data is a reference to one.  Every  *)
(* pandas call of the store (concat, sort_values, tail, copy) builds a new *)
(* object, and an assignment to self._data rebinds the reference.  A frame *)
(* is modelled by its sequence of rows; a row keeps its timestamp (an      *)
(* instant `ts` and whether the timestamp is tz-naive or tz-aware), one    *)
(* sensor cell, and `seq`, the number of the add_reading call that brought *)
(* it, which stands for the rest of the reading's content.                 *)
(***************************************************************************)
EXTENDS Integers, Sequences, FiniteSets, TLC

\* ---------------------------------------------------------------- bounds
\* self._max_records (10000 in the program), kept small in the model
max_records == 2
\* timestamps are instants 1..MaxTime
MaxTime == 2
\* total number of store calls made by all threads
MaxCalls == 3

Threads == {1, 2}
NumThreads == Cardinality(Threads)
NoThread == 0

\* ---------------------------------------------------------------- readings
TzKinds == {"naive", "aware"}
\* a reading whose 'timestamp' is a string pd.to_datetime rejects, or that has
\* no 'timestamp' key at all
BadKinds == {"unparsable", "absent"}

Reading(n, time, kind) == [seq |-> n, ts |-> time, tz |-> kind, temperature |-> "num"]
NoRow == [seq |-> 0, ts |-> 0, tz |-> "none", temperature |-> "nan"]

Readings(n) ==
    {Reading(n, time, kind) : time \in 1..MaxTime, kind \in TzKinds}
        \cup {Reading(n, 0, kind) : kind \in BadKinds}

\* pd.DataFrame([reading]) followed by new_row['timestamp'] =
\* pd.to_datetime(new_row['timestamp']): KeyError without the key, a parse
\* error on an unparsable string, a Timestamp otherwise
ToDatetimeRaises(r) == r.tz \in BadKinds

\* ---------------------------------------------------------------- frames
EmptyFrame == << >>

\* Timestamp comparison: a tz-naive and a tz-aware Timestamp do not compare
\* (TypeError); two of the same kind compare by instant
Comparable(f) == \A i, j \in DOMAIN f : f[i].tz = f[j].tz

IsSorted(f) == \A i, j \in DOMAIN f : i < j => f[i].ts <= f[j].ts

FramePermutations(f) ==
    {g \in [DOMAIN f -> {f[i] : i \in DOMAIN f}] :
        \A i \in DOMAIN f : \E j \in DOMAIN f : g[j] = f[i]}

\* pd.concat([self._data, new_row], ignore_index=True)
Concat(f, r) == Append(f, r)

\* sort_values left out: the frame stays in arrival order
SortValuesNone(f) == {f}

\* DataFrame.sort_values('timestamp').reset_index(drop=True): the default
\* kind is quicksort, which is not stable, so rows of equal timestamp come
\* out in any order
SortValues(f) == {g \in FramePermutations(f) : IsSorted(g)}

\* head(n) in place of tail(n): the oldest rows are kept
TailRowsHead(f, n) == IF Len(f) <= n THEN f ELSE SubSeq(f, 1, n)

\* DataFrame.tail(n).reset_index(drop=True)
TailRows(f, n) == IF Len(f) <= n THEN f ELSE SubSeq(f, Len(f) - n + 1, Len(f))

\* ---------------------------------------------------------------- state
VARIABLES
    heap,      \* heap[a]: the rows of the DataFrame object at address a
    dataRef,   \* self._data: the address of the store's DataFrame
    lock,      \* self._lock: the thread inside a `with self._lock`, or NoThread
    pc,        \* pc[t]: where thread t is in the call it makes
    op,        \* op[t]: the call thread t makes or made last (name and argument)
    tmp,       \* tmp[t]: the frame an expression of t's call has built, not yet bound
    ret,       \* ret[t]: what t's last call returned
    snap,      \* snap[t]: address of the frame get_all_data returned to t, or Null
    pre,       \* pre[t]: the store's rows when t's call entered its critical section
    applied,   \* readings concatenated into the store since the last clear
    calls      \* number of calls made so far

vars == <<heap, dataRef, lock, pc, op, tmp, ret, snap, pre, applied, calls>>

\* The validator, the cleaning pipeline and the analytics engine are
\* functions of their arguments; a call of one of them is followed with
VARIABLES
    phase,     \* where the call is: "called", "returned", ... ("store": none made)
    input,     \* the arguments of the call
    output     \* what the call returned

pvars == <<phase, input, output>>
allvars == <<vars, pvars>>

\* no such call is followed while the store's threads run
NoCall == phase = "store" /\ input = << >> /\ output = << >>

Null == 0 - 1
\* the store's frame lives at one of 0..NumThreads; the copy get_all_data
\* hands to thread t lives at NumThreads + t
StoreAddrs == 0 .. NumThreads
CopyAddr(t) == NumThreads + t
Addrs == 0 .. (2 * NumThreads)

Content == heap[dataRef]

NoOp == [name |-> "none", reading |-> NoRow, format |-> "none"]
Ret(tag, n, row) == [tag |-> tag, n |-> n, row |-> row]
NoRet == Ret("none", 0, NoRow)

\* self._data = <new frame>: the new object takes an address no caller
\* holds, and the old object is collected unless a caller still holds it
Rebind(h, ref, held, f) ==
    LET a == CHOOSE x \in StoreAddrs :
                /\ x \notin held
                /\ \A y \in StoreAddrs : y \notin held => x <= y
        h1 == IF ref \notin held /\ ref # a THEN [h EXCEPT ![ref] = EmptyFrame] ELSE h
    IN  [heap |-> [h1 EXCEPT ![a] = f], ref |-> a]

Held == {snap[t] : t \in Threads}

\* DataStorage.__init__ and _initialize_dataframe: an empty frame
StoreInit ==
    /\ heap = [a \in Addrs |-> EmptyFrame]
    /\ dataRef = 0
    /\ lock = NoThread
    /\ pc = [t \in Threads |-> "idle"]
    /\ op = [t \in Threads |-> NoOp]
    /\ tmp = [t \in Threads |-> EmptyFrame]
    /\ ret = [t \in Threads |-> NoRet]
    /\ snap = [t \in Threads |-> Null]
    /\ pre = [t \in Threads |-> EmptyFrame]
    /\ applied = {}
    /\ calls = 0

Init == StoreInit /\ NoCall

\* ---------------------------------------------------------------- calls
ExportFormats == {"csv", "xml"}

Calls(n) ==
    {[name |-> "add_reading", reading |-> r, format |-> "none"] : r \in Readings(n)}
        \cup {[name |-> nm, reading |-> NoRow, format |-> "none"] :
                nm \in {"get_all_data", "get_total_readings", "has_data",
                        "get_latest_reading", "clear_data"}}
        \cup {[name |-> "get_data_for_export", reading |-> NoRow, format |-> fmt] :
                fmt \in ExportFormats}

\* a thread calls a method of the store; every method starts with
\* `with self._lock:`
Call(t) ==
    /\ pc[t] = "idle"
    /\ calls < MaxCalls
    /\ \E c \in Calls(calls + 1) : op' = [op EXCEPT ![t] = c]
    /\ calls' = calls + 1
    /\ pc' = [pc EXCEPT ![t] = "acquire"]
    /\ ret' = [ret EXCEPT ![t] = NoRet]
    /\ pre' = [pre EXCEPT ![t] = EmptyFrame]
    /\ UNCHANGED <<heap, dataRef, lock, tmp, snap, applied>>
    /\ UNCHANGED pvars

\* no mutual exclusion: the critical section is entered at once
LockFreeAlways == TRUE

\* threading.Lock: acquire succeeds only while no thread holds the lock
LockFree == lock = NoThread

FirstStep(name) ==
    CASE name = "add_reading" -> "add_concat"
      [] name = "get_all_data" -> "get_all_data"
      [] name = "get_total_readings" -> "get_total_readings"
      [] name = "has_data" -> "has_data"
      [] name = "get_latest_reading" -> "get_latest_reading"
      [] name = "clear_data" -> "clear_data"
      [] name = "get_data_for_export" -> "get_data_for_export"
      [] name = "get_sensor_summary" -> "get_sensor_summary"
      [] name = "get_recent_data" -> "get_recent_data"
      [] name = "get_data_by_timerange" -> "get_data_by_timerange"

\* `with self._lock:` entering
Acquire(t) ==
    /\ pc[t] = "acquire"
    /\ LockFree
    /\ lock' = t
    /\ pc' = [pc EXCEPT ![t] = FirstStep(op[t].name)]
    /\ pre' = [pre EXCEPT ![t] = Content]
    /\ UNCHANGED <<heap, dataRef, op, tmp, ret, snap, applied, calls>>
    /\ UNCHANGED pvars

\* `with self._lock:` leaving by a return statement releases the lock
Release(t) == NoThread

\* the lock is not released when an exception leaves the critical section
UnwindKeepsLock(t) == t

\* `with self._lock:` left by an exception releases the lock as well
Unwind(t) == NoThread

\* the call of t returns r
Return(t, r) ==
    /\ lock' = Release(t)
    /\ pc' = [pc EXCEPT ![t] = "idle"]
    /\ ret' = [ret EXCEPT ![t] = r]
    /\ tmp' = [tmp EXCEPT ![t] = EmptyFrame]
    /\ pre' = [pre EXCEPT ![t] = EmptyFrame]

\* an exception leaves the critical section of t's call; the call ends with
\* r: what the handler returns, or tag "raised" when it reaches the caller
Raise(t, r) ==
    /\ lock' = Unwind(t)
    /\ pc' = [pc EXCEPT ![t] = "idle"]
    /\ ret' = [ret EXCEPT ![t] = r]
    /\ tmp' = [tmp EXCEPT ![t] = EmptyFrame]
    /\ pre' = [pre EXCEPT ![t] = EmptyFrame]

\* ---------------------------------------------------------------- add_reading
\* lines 45-51, right-hand side: build the row, convert its timestamp, build
\* the concatenated frame.  An exception is caught at line 62: return False
AddConcat(t) ==
    /\ pc[t] = "add_concat"
    /\ IF ToDatetimeRaises(op[t].reading)
       THEN /\ Raise(t, Ret("False", 0, NoRow))
            /\ UNCHANGED <<heap, dataRef, op, snap, applied, calls>>
       ELSE /\ tmp' = [tmp EXCEPT ![t] = Concat(Content, op[t].reading)]
            /\ pc' = [pc EXCEPT ![t] = "add_bind_concat"]
            /\ UNCHANGED <<heap, dataRef, lock, op, ret, snap, pre, applied, calls>>
    /\ UNCHANGED pvars

\* line 51, the assignment: self._data = <concatenated frame>
AddBindConcat(t) ==
    /\ pc[t] = "add_bind_concat"
    /\ LET b == Rebind(heap, dataRef, Held, tmp[t])
       IN  heap' = b.heap /\ dataRef' = b.ref
    /\ applied' = applied \cup {op[t].reading}
    /\ pc' = [pc EXCEPT ![t] = "add_sort"]
    /\ UNCHANGED <<lock, op, tmp, ret, snap, pre, calls>>
    /\ UNCHANGED pvars

\* line 54, right-hand side: sort_values compares the timestamps and raises
\* TypeError when tz-naive and tz-aware ones meet; caught at line 62
AddSort(t) ==
    /\ pc[t] = "add_sort"
    /\ IF ~Comparable(Content)
       THEN /\ Raise(t, Ret("False", 0, NoRow))
            /\ UNCHANGED <<heap, dataRef, op, snap, applied, calls>>
       ELSE /\ \E g \in SortValues(Content) : tmp' = [tmp EXCEPT ![t] = g]
            /\ pc' = [pc EXCEPT ![t] = "add_bind_sort"]
            /\ UNCHANGED <<heap, dataRef, lock, op, ret, snap, pre, applied, calls>>
    /\ UNCHANGED pvars

\* line 54, the assignment
AddBindSort(t) ==
    /\ pc[t] = "add_bind_sort"
    /\ LET b == Rebind(heap, dataRef, Held, tmp[t])
       IN  heap' = b.heap /\ dataRef' = b.ref
    /\ pc' = [pc EXCEPT ![t] = "add_trim"]
    /\ UNCHANGED <<lock, op, tmp, ret, snap, pre, applied, calls>>
    /\ UNCHANGED pvars

\* lines 57-60: the length test and the right-hand side of line 58, or
\* return True at once
AddTrim(t) ==
    /\ pc[t] = "add_trim"
    /\ IF Len(Content) > max_records
       THEN /\ tmp' = [tmp EXCEPT ![t] = TailRows(Content, max_records)]
            /\ pc' = [pc EXCEPT ![t] = "add_bind_trim"]
            /\ UNCHANGED <<heap, dataRef, lock, op, ret, snap, pre, applied, calls>>
       ELSE /\ Return(t, Ret("True", 0, NoRow))
            /\ UNCHANGED <<heap, dataRef, op, snap, applied, calls>>
    /\ UNCHANGED pvars

\* line 58, the assignment, and line 60: return True
AddBindTrim(t) ==
    /\ pc[t] = "add_bind_trim"
    /\ LET b == Rebind(heap, dataRef, Held, tmp[t])
       IN  heap' = b.heap /\ dataRef' = b.ref
    /\ Return(t, Ret("True", 0, NoRow))
    /\ UNCHANGED <<op, snap, applied, calls>>
    /\ UNCHANGED pvars

\* ---------------------------------------------------------------- reads
\* return self._data itself, no copy
CopyTargetAlias(t) == dataRef

\* self._data.copy(): a new DataFrame object holding the same rows
CopyTarget(t) == CopyAddr(t)

\* get_all_data, line 74
GetAllData(t) ==
    /\ pc[t] = "get_all_data"
    /\ LET a == CopyTarget(t)
       IN  /\ heap' = [heap EXCEPT ![a] = Content]
           /\ snap' = [snap EXCEPT ![t] = a]
    /\ Return(t, Ret("frame", 0, NoRow))
    /\ UNCHANGED <<dataRef, op, applied, calls>>
    /\ UNCHANGED pvars

\* get_total_readings, line 166: len(self._data)
get_total_readings(f) == Len(f)

\* has_data, line 176: not self._data.empty
has_data(f) == f # EmptyFrame

\* get_latest_reading, lines 139-143: None, or the last row
get_latest_reading(f) ==
    IF f = EmptyFrame THEN Ret("None", 0, NoRow) ELSE Ret("row", 0, f[Len(f)])

GetTotalReadings(t) ==
    /\ pc[t] = "get_total_readings"
    /\ Return(t, Ret("int", get_total_readings(Content), NoRow))
    /\ UNCHANGED <<heap, dataRef, op, snap, applied, calls>>
    /\ UNCHANGED pvars

HasData(t) ==
    /\ pc[t] = "has_data"
    /\ Return(t, Ret(IF has_data(Content) THEN "True" ELSE "False", 0, NoRow))
    /\ UNCHANGED <<heap, dataRef, op, snap, applied, calls>>
    /\ UNCHANGED pvars

GetLatestReading(t) ==
    /\ pc[t] = "get_latest_reading"
    /\ Return(t, get_latest_reading(Content))
    /\ UNCHANGED <<heap, dataRef, op, snap, applied, calls>>
    /\ UNCHANGED pvars

\* get_data_for_export, lines 240-248: "" for an empty store, the text for
\* csv and json, ValueError (raised to the caller) for any other format
GetDataForExport(t) ==
    /\ pc[t] = "get_data_for_export"
    /\ IF Content = EmptyFrame
       THEN Return(t, Ret("empty_text", 0, NoRow))
       ELSE IF op[t].format \in {"csv", "json"}
            THEN Return(t, Ret(op[t].format, Len(Content), NoRow))
            ELSE Raise(t, Ret("raised", 0, NoRow))
    /\ UNCHANGED <<heap, dataRef, op, snap, applied, calls>>
    /\ UNCHANGED pvars

\* ---------------------------------------------------------------- clear_data
\* the new empty frame is never bound to self._data
InitializeDataframeNoop(f) == f

\* _initialize_dataframe, lines 22-30: self._data = an empty frame with the
\* six columns, whatever it held before
InitializeDataframe(f) == EmptyFrame

\* clear_data, lines 186-188
ClearData(t) ==
    /\ pc[t] = "clear_data"
    /\ LET b == Rebind(heap, dataRef, Held, InitializeDataframe(Content))
       IN  heap' = b.heap /\ dataRef' = b.ref
    /\ applied' = {}
    /\ Return(t, Ret("True", 0, NoRow))
    /\ UNCHANGED <<op, snap, calls>>
    /\ UNCHANGED pvars

\* ---------------------------------------------------------------- callers
\* a caller writes into the frame it was handed, in place, as the cleaning
\* stages do (data.loc[mask, column] = np.nan)
CallerWrites(t) ==
    /\ snap[t] # Null
    /\ heap[snap[t]] # EmptyFrame
    /\ heap[snap[t]][1].temperature = "num"
    /\ heap' = [heap EXCEPT ![snap[t]][1].temperature = "nan"]
    /\ UNCHANGED <<dataRef, lock, pc, op, tmp, ret, snap, pre, applied, calls>>
    /\ UNCHANGED pvars

\* ---------------------------------------------------------------- the system
Next ==
    \E t \in Threads :
        \/ Call(t)
        \/ Acquire(t)
        \/ AddConcat(t)
        \/ AddBindConcat(t)
        \/ AddSort(t)
        \/ AddBindSort(t)
        \/ AddTrim(t)
        \/ AddBindTrim(t)
        \/ GetAllData(t)
        \/ GetTotalReadings(t)
        \/ HasData(t)
        \/ GetLatestReading(t)
        \/ GetDataForExport(t)
        \/ ClearData(t)
        \/ CallerWrites(t)

Spec == Init /\ [][Next]_vars

\* a call, once made, runs on: each thread is scheduled again and again, and
\* a thread waiting for the lock gets it when it is free often enough
Step(t) ==
    \/ AddConcat(t) \/ AddBindConcat(t) \/ AddSort(t) \/ AddBindSort(t)
    \/ AddTrim(t) \/ AddBindTrim(t) \/ GetAllData(t) \/ GetTotalReadings(t)
    \/ HasData(t) \/ GetLatestReading(t) \/ GetDataForExport(t) \/ ClearData(t)

FairSpec ==
    Spec /\ \A t \in Threads : WF_vars(Step(t)) /\ SF_vars(Acquire(t))

\* ---------------------------------------------------------------- properties
Rows(f) == {f[i] : i \in DOMAIN f}
Min(a, b) == IF a <= b THEN a ELSE b

InAdd(t) ==
    pc[t] \in {"add_concat", "add_bind_concat", "add_sort", "add_bind_sort",
               "add_trim", "add_bind_trim"}

\* the step in which t's add_reading returns True / returns False
AddSucceeds(t) == InAdd(t) /\ pc'[t] = "idle" /\ ret'[t].tag = "True"
AddFails(t) == InAdd(t) /\ pc'[t] = "idle" /\ ret'[t].tag = "False"

Returned(t, name) == pc[t] = "idle" /\ op[t].name = name

\* C1: every frame snapshot() (get_all_data) has returned is ordered by
\* timestamp ascending, whatever appends and clears came before
C1_SnapshotSorted ==
    \A t \in Threads : snap[t] # Null => IsSorted(heap[snap[t]])

\* C2: count() never exceeds the capacity, and a successful append on a store
\* that was at capacity leaves the count equal to the capacity
C2_CountWithinCapacity ==
    [][ /\ (lock' = NoThread => get_total_readings(Content') <= max_records)
        /\ \A t \in Threads :
              (AddSucceeds(t) /\ Len(pre[t]) >= max_records)
                  => get_total_readings(Content') = max_records ]_vars

\* C3: a successful append that takes the store over its capacity leaves
\* exactly `capacity` rows, all from the rows stored before plus the new one,
\* and the one row dropped has a timestamp no newer than any row kept
C3_TrimKeepsNewest ==
    [][ \A t \in Threads :
          (AddSucceeds(t) /\ Len(pre[t]) + 1 > max_records) =>
              LET before == Rows(pre[t]) \cup {op[t].reading}
                  after == Rows(Content')
              IN  /\ Len(Content') = max_records
                  /\ Cardinality(after) = max_records
                  /\ after \subseteq before
                  /\ Cardinality(before \ after) = 1
                  /\ \A d \in before \ after : \A k \in after : d.ts <= k.ts ]_vars

C3_Witness ==
    \E t \in Threads :
        /\ Returned(t, "add_reading") /\ ret[t].tag = "True"
        /\ lock = NoThread
        /\ Cardinality(applied) = max_records + 1
        /\ Len(Content) = max_records
        /\ op[t].reading \in Rows(Content)

C5_FailedAppendUnchanged ==
    [][ \A t \in Threads :
          AddFails(t) =>
              /\ Content' = pre[t]
              /\ IsSorted(Content')
              /\ Len(Content') <= max_records ]_vars

\* C6: a frame handed to a caller changes only by that caller's own hand
\* (its write, or its next get_all_data), and a caller's write changes
\* neither the store's rows nor another caller's frame
C6_SnapshotIndependent ==
    [][ \A t \in Threads :
          /\ (snap[t] # Null /\ heap'[snap[t]] # heap[snap[t]])
                => (pc[t] = "get_all_data" \/ CallerWrites(t))
          /\ CallerWrites(t) =>
                /\ heap'[dataRef'] = heap[dataRef]
                /\ \A u \in Threads \ {t} :
                      snap[u] # Null => heap'[snap[u]] = heap[snap[u]] ]_vars

C6_Witness ==
    \E t \in Threads :
        /\ snap[t] # Null
        /\ heap[snap[t]] # EmptyFrame
        /\ heap[snap[t]][1].temperature = "nan"
        /\ Len(Content) = 2
        /\ Content[1].seq = heap[snap[t]][1].seq
        /\ Content[1].temperature = "num"

\* C7: whatever a read returns was taken from a buffer that is sorted and
\* within capacity, never from one with a row inserted but not yet sorted
\* or trimmed
C7_ReadsSeeWholeMutations ==
    \A t \in Threads :
        /\ (Returned(t, "get_all_data") /\ ret[t].tag = "frame")
              => (IsSorted(heap[snap[t]]) /\ Len(heap[snap[t]]) <= max_records)
        /\ (Returned(t, "get_total_readings") /\ ret[t].tag = "int")
              => ret[t].n <= max_records

\* C8: while the readings appended since the last clear can all be ordered
\* against one another, none is lost: once no append is under way the store
\* holds min(number appended, capacity) rows, the ones with the newest
\* timestamps, and none of these appends has returned False
AllOrderable == \A x, y \in applied : x.tz = y.tz

AppendUnderWay ==
    \E t \in Threads :
        pc[t] \in {"add_sort", "add_bind_sort", "add_trim", "add_bind_trim"}

C8_NoAppendLost ==
    (AllOrderable /\ ~AppendUnderWay) =>
        /\ Len(Content) = Min(Cardinality(applied), max_records)
        /\ Rows(Content) \subseteq applied
        /\ Cardinality(Rows(Content)) = Len(Content)
        /\ \A d \in applied \ Rows(Content) : \A k \in Rows(Content) : d.ts <= k.ts
        /\ \A t \in Threads :
              (Returned(t, "add_reading") /\ op[t].reading \in applied)
                  => ret[t].tag = "True"

C8_Witness ==
    \E t, u \in Threads :
        /\ t # u
        /\ op[t].name = "add_reading" /\ pc[t] = "acquire"
        /\ op[u].name = "add_reading" /\ pc[u] = "add_bind_sort"
        /\ lock = u
        /\ Len(Content) = 2
        /\ Comparable(Content)

\* C9: under fair scheduling every append call returns, and the lock is
\* never left held by a thread that is not inside a critical section
C9_AppendReturns ==
    /\ \A t \in Threads :
          (pc[t] = "acquire" /\ op[t].name = "add_reading") ~> (pc[t] = "idle")
    /\ [](\A t \in Threads : lock = t => pc[t] \notin {"idle", "acquire"})

C9_Witness ==
    \E t, u \in Threads :
        /\ op[t].name = "add_reading" /\ pc[t] = "acquire"
        /\ lock = NoThread
        /\ Returned(u, "get_data_for_export") /\ ret[u].tag = "raised"

\* C10: clear() leaves the store as __init__ made it (no rows: count 0,
\* has_data false, no latest reading, empty snapshot), from any state, and
\* clear() on a cleared store changes nothing
C10_ClearResets ==
    [][ \A t \in Threads :
          (pc[t] = "clear_data" /\ pc'[t] = "idle") =>
              /\ Content' = EmptyFrame
              /\ get_total_readings(Content') = 0
              /\ ~has_data(Content')
              /\ get_latest_reading(Content').tag = "None"
              /\ applied' = {}
              /\ ret'[t].tag = "True"
              /\ (Content = EmptyFrame => Content' = Content) ]_vars

C10_Witness ==
    \E t, u \in Threads :
        /\ Returned(t, "clear_data") /\ ret[t].tag = "True"
        /\ Returned(u, "add_reading") /\ ret[u].tag = "True"
        /\ op[u].reading.seq < calls
        /\ Content = EmptyFrame
        /\ lock = NoThread

\* ================================================================ validator
\* src/utils.py, validate_sensor_data.  A field of the reading dict is a
\* Python value: absent from the dict, None, a str, a float nan, or a number
SensorFields == <<"temperature", "weight", "moisture", "pressure">>
RequiredFields == <<"timestamp">> \o SensorFields

\* sensor_ranges (utils.py lines 43-48, data_processor.py lines 16-21)
sensor_ranges ==
    [temperature |-> <<0 - 50, 100>>, weight |-> <<0, 1000>>,
     moisture |-> <<0, 100>>, pressure |-> <<80000, 120000>>]

Absent == [kind |-> "absent", v |-> 0]
PyNone == [kind |-> "none", v |-> 0]
PyStr == [kind |-> "str", v |-> 0]
PyNan == [kind |-> "nan", v |-> 0]
Num(x) == [kind |-> "num", v |-> x]

\* the values a sensor field takes in the model: not a number in four ways,
\* and the numbers on and next to the two ends of the sensor's range
SensorValues(f) ==
    {Absent, PyNone, PyStr, PyNan}
        \cup {Num(x) : x \in {sensor_ranges[f][1] - 1, sensor_ranges[f][1],
                              sensor_ranges[f][2], sensor_ranges[f][2] + 1}}

\* the values the timestamp field takes: absent, None, a datetime (tz-naive
\* or tz-aware), a string pd.to_datetime parses, one it rejects, and one it
\* reads as NaT (the empty string, "NaT", "nan")
TimestampValues ==
    {"absent", "none", "naive", "aware", "str_ok", "str_bad", "str_nat"}

RawReadings ==
    [timestamp : TimestampValues,
     temperature : SensorValues("temperature"), weight : SensorValues("weight"),
     moisture : SensorValues("moisture"), pressure : SensorValues("pressure")]

\* field not in data
NotIn(d, f) == IF f = "timestamp" THEN d.timestamp = "absent" ELSE d[f].kind = "absent"

\* lines 37-40: one error for every required field the dict lacks
MissingErrors(d) ==
    SelectSeq([i \in 1..Len(RequiredFields) |->
                  IF NotIn(d, RequiredFields[i])
                  THEN <<"Missing required field", RequiredFields[i]>>
                  ELSE <<"", "">>],
              LAMBDA e : e[1] # "")

\* isinstance(value, (int, float)): a nan is a float
IsNumeric(val) == val.kind \in {"num", "nan"}

\* min_val <= value <= max_val: every comparison with nan is false
InRange(f, val) ==
    val.kind = "num" /\ sensor_ranges[f][1] <= val.v /\ val.v <= sensor_ranges[f][2]

\* lines 50-58, for one sensor
SensorError(d, f) ==
    IF NotIn(d, f) THEN <<"", "">>
    ELSE IF d[f].kind = "none" THEN <<"value is None", f>>
    ELSE IF ~IsNumeric(d[f]) THEN <<"value must be numeric", f>>
    ELSE IF ~InRange(f, d[f]) THEN <<"outside valid range", f>>
    ELSE <<"", "">>

RangeErrors(d) ==
    SelectSeq([i \in 1..Len(SensorFields) |-> SensorError(d, SensorFields[i])],
              LAMBDA e : e[1] # "")

\* pd.to_datetime(str): a Timestamp, NaT, or an exception
ToDatetimeStr(ts) ==
    CASE ts = "str_ok" -> "Timestamp"
      [] ts = "str_nat" -> "NaT"
      [] ts = "str_bad" -> "raise"

\* the parse error leaves validate_sensor_data
TryToDatetimeBare(ts) == IF ToDatetimeStr(ts) = "raise" THEN "raised" ELSE "ok"

\* lines 63-70, try: ... except: the parse error is caught
TryToDatetime(ts) == IF ToDatetimeStr(ts) = "raise" THEN "caught" ELSE "ok"

\* lines 62-70: "ok", an error, or "raised" when an exception gets out
TimestampCheck(d) ==
    IF NotIn(d, "timestamp") THEN "ok"
    ELSE IF d.timestamp \in {"str_ok", "str_bad", "str_nat"}
         THEN IF TryToDatetime(d.timestamp) = "caught"
              THEN "Invalid timestamp format"
              ELSE TryToDatetime(d.timestamp)
         ELSE IF d.timestamp \notin {"naive", "aware"}
              THEN "timestamp must be a valid datetime"
              ELSE "ok"

TimestampErrors(d) ==
    IF TimestampCheck(d) \in {"ok", "raised"} THEN << >>
    ELSE << <<TimestampCheck(d), "timestamp">> >>

\* validate_sensor_data, lines 24-73
validate_sensor_data(d) ==
    LET errors == MissingErrors(d) \o RangeErrors(d) \o TimestampErrors(d)
    IN  IF TimestampCheck(d) = "raised"
        THEN [tag |-> "raised", valid |-> FALSE, errors |-> << >>]
        ELSE [tag |-> "result", valid |-> Len(errors) = 0, errors |-> errors]

\* ---------------------------------------------------------------- its calls
InitValidate ==
    /\ StoreInit
    /\ phase = "called"
    /\ input \in RawReadings
    /\ output = << >>

\* validate_sensor_data(data) runs and returns; it assigns to no key of data
Validate ==
    /\ phase = "called"
    /\ output' = validate_sensor_data(input)
    /\ phase' = "returned"
    /\ UNCHANGED <<input, vars>>

NextValidate == Validate

ValidateSpec == InitValidate /\ [][NextValidate]_allvars

\* ---------------------------------------------------------------- properties
\* what C11 asks of a field
TimestampIsInstant(d) == d.timestamp \in {"naive", "aware", "str_ok"}
SensorIsGood(d, f) ==
    d[f].kind = "num" /\ sensor_ranges[f][1] <= d[f].v /\ d[f].v <= sensor_ranges[f][2]
BadFields(d) ==
    {f \in {"temperature", "weight", "moisture", "pressure"} : ~SensorIsGood(d, f)}
        \cup (IF TimestampIsInstant(d) THEN {} ELSE {"timestamp"})

\* C11: validate returns valid = true exactly when the error list is empty,
\* and that exactly when the timestamp is present and a point in time and
\* each sensor field is present, numeric and in its inclusive range; each
\* violated condition adds one error
C11_ValidIffWellFormed ==
    phase = "returned" =>
        /\ output.tag = "result"
        /\ output.valid <=> (output.errors = << >>)
        /\ output.valid <=> (BadFields(input) = {})
        /\ Len(output.errors) = Cardinality(BadFields(input))

\* C12: validate returns a result for every reading, however malformed, and
\* leaves the reading as it was
C12_ValidateTotal ==
    [][ Validate =>
          /\ output'.tag = "result"
          /\ output'.valid \in BOOLEAN
          /\ input' = input ]_allvars

C12_Witness ==
    /\ phase = "returned"
    /\ input.timestamp = "str_bad"
    /\ input.temperature = Absent
    /\ input.weight = PyNone
    /\ input.moisture = PyStr
    /\ input.pressure.kind = "num" /\ ~InRange("pressure", input.pressure)
    /\ Len(output.errors) = 5

\* ================================================================ ingest path
\* src/app.py lines 104-112: a reading is validated, and handed to
\* add_reading only when the validator says it is valid.  The readings that
\* arrive: a datetime timestamp (tz-naive or tz-aware) or an unparsable
\* string; a temperature at the upper end of its range, just above it, or
\* nan; weight, moisture and pressure in range
IngestReadings ==
    [timestamp : {"naive", "aware", "str_bad"},
     temperature : {Num(sensor_ranges.temperature[2]),
                    Num(sensor_ranges.temperature[2] + 1), PyNan},
     weight : {Num(sensor_ranges.weight[2])},
     moisture : {Num(sensor_ranges.moisture[1])},
     pressure : {Num(sensor_ranges.pressure[1])}]

\* the row pd.DataFrame([reading]) makes of the dict d read at instant time:
\* every sensor cell holds the value the dict holds
IngestRow(n, d, time) ==
    [seq |-> n,
     ts |-> IF d.timestamp \in TzKinds THEN time ELSE 0,
     tz |-> CASE d.timestamp \in TzKinds -> d.timestamp
              [] d.timestamp = "str_bad" -> "unparsable",
     temperature |-> d.temperature, weight |-> d.weight,
     moisture |-> d.moisture, pressure |-> d.pressure]

\* the reading is appended whatever the validator said
ShouldStoreAlways(result) == TRUE

\* line 107: if validation_result['valid']
ShouldStore(result) == result.valid

\* lines 104-112: validate the reading, then call add_reading (line 108) or
\* report the errors (line 110) and leave the store alone
Ingest(t) ==
    /\ pc[t] = "idle"
    /\ calls < MaxCalls
    /\ \E d \in IngestReadings, time \in 1..MaxTime :
          LET validation_result == validate_sensor_data(d)
              row == IngestRow(calls + 1, d, time)
          IN  IF ShouldStore(validation_result)
              THEN /\ op' = [op EXCEPT ![t] = [name |-> "add_reading", reading |-> row,
                                               format |-> "none"]]
                   /\ pc' = [pc EXCEPT ![t] = "acquire"]
                   /\ ret' = [ret EXCEPT ![t] = NoRet]
              ELSE /\ op' = [op EXCEPT ![t] = [name |-> "rejected", reading |-> row,
                                               format |-> "none"]]
                   /\ pc' = pc
                   /\ ret' = [ret EXCEPT ![t] =
                                  Ret("st.error", Len(validation_result.errors), NoRow)]
    /\ calls' = calls + 1
    /\ pre' = [pre EXCEPT ![t] = EmptyFrame]
    /\ UNCHANGED <<heap, dataRef, lock, tmp, snap, applied>>
    /\ UNCHANGED pvars

NextIngest ==
    \E t \in Threads :
        \/ Ingest(t)
        \/ Acquire(t)
        \/ AddConcat(t)
        \/ AddBindConcat(t)
        \/ AddSort(t)
        \/ AddBindSort(t)
        \/ AddTrim(t)
        \/ AddBindTrim(t)

IngestSpec == Init /\ [][NextIngest]_vars

\* a stored sensor cell is in its range, or missing
CellInRangeOrMissing(f, val) ==
    \/ val.kind = "nan"
    \/ val.kind = "num" /\ sensor_ranges[f][1] <= val.v /\ val.v <= sensor_ranges[f][2]

Rejected(t) == pc[t] = "idle" /\ op[t].name = "rejected"

\* C13: on the ingest path a reading that fails validation is never stored
\* and its arrival leaves the store as it was, and every sensor value the
\* store holds is in its sensor's range or missing
C13_IngestKeepsStoreValid ==
    [][ /\ \A i \in DOMAIN Content' :
              \A f \in {"temperature", "weight", "moisture", "pressure"} :
                  CellInRangeOrMissing(f, Content'[i][f])
        /\ \A t \in Threads : Rejected(t)' =>
              /\ op'[t].reading \notin Rows(Content')
              /\ op'[t].reading \notin applied'
        /\ \A t \in Threads :
              (Ingest(t) /\ op'[t].name = "rejected")
                  => UNCHANGED <<heap, dataRef, applied, lock>> ]_vars

C13_Witness ==
    \E t, u \in Threads :
        /\ Rejected(t)
        /\ op[t].reading.temperature = Num(sensor_ranges.temperature[2] + 1)
        /\ op[t].reading.tz = "naive"
        /\ ret[t].tag = "st.error" /\ ret[t].n = 1
        /\ Returned(u, "add_reading") /\ ret[u].tag = "True"
        /\ op[u].reading.seq < op[t].reading.seq
        /\ Content = <<op[u].reading>>
        /\ lock = NoThread

\* ================================================================ cleaning
\* src/data_processor.py, DataProcessor.clean_data and its stages.  The
\* stages treat every sensor column alike, each with its own range; the
\* frame here has the timestamp column and one sensor column.  A cell is
\* PyNan or a number; numbers are counted in units of 1/Unit so that the
\* quantiles (quarters) and two rounds of the smoothing filter (35ths each)
\* are exact
CleanColumn == "moisture"
Unit == 35 * 35

\* longest snapshot handed to clean_data
MaxRows == 6
\* longest snapshot that holds cells out of range or missing
MaxDirtyRows == 4

\* the cells of a raw snapshot: three numbers in range; one above the range,
\* and nan
CleanNumbers == {Num(0), Num(1 * Unit), Num(3 * Unit)}
DirtyValues == {Num(101 * Unit), PyNan}
CleanValues(n) == IF n <= MaxDirtyRows THEN CleanNumbers \cup DirtyValues ELSE CleanNumbers

\* timestamps of a snapshot of n rows: all distinct, or the last two equal
Timestamps(n) ==
    {[i \in 1..n |-> i]} \cup
    (IF n >= 2 THEN {[i \in 1..n |-> IF i = n THEN n - 1 ELSE i]} ELSE {})

Snapshots ==
    UNION {{[i \in 1..n |-> [ts |-> tss[i], v |-> col[i]]] :
                tss \in Timestamps(n), col \in [1..n -> CleanValues(n)]} : n \in 0..MaxRows}

\* a column or frame given cell by cell, as a sequence
AsSeq(fn) == SubSeq(fn, 1, Len(fn))

Col(f) == AsSeq([i \in DOMAIN f |-> f[i].v])
SetCol(f, col) == AsSeq([i \in DOMAIN f |-> [ts |-> f[i].ts, v |-> col[i]]])

IsNull(c) == c.kind = "nan"

\* fillna(method='ffill'): a nan takes the last value before it, if any
FFill(col) ==
    AsSeq([i \in DOMAIN col |->
              LET before == {j \in 1..i : ~IsNull(col[j])}
              IN  IF before = {} THEN PyNan
                  ELSE col[CHOOSE j \in before : \A k \in before : k <= j]])

\* no backward fill
BFillSkipped(col) == col

\* fillna(method='bfill'): a nan takes the first value after it, if any
BFill(col) ==
    AsSeq([i \in DOMAIN col |->
              LET after == {j \in i..Len(col) : ~IsNull(col[j])}
              IN  IF after = {} THEN PyNan
                  ELSE col[CHOOSE j \in after : \A k \in after : j <= k]])

\* interpolate(method='linear') on a column that went through ffill and
\* bfill: it holds no nan, or nothing but nan, and stays as it is
Interpolate(col) == col

\* (min_val + max_val) / 2
Midpoint(f) == ((sensor_ranges[f][1] + sensor_ranges[f][2]) * Unit) \div 2

\* _fill_missing_values, lines 160-175, for one column
fill_missing_values(f, col) ==
    LET filled == Interpolate(BFill(FFill(col)))
    IN  AsSeq([i \in DOMAIN filled |->
                  IF IsNull(filled[i]) THEN Num(Midpoint(f)) ELSE filled[i]])

\* no value is taken as out of range
OutOfRangeNever(f, c) == FALSE

\* (data[column] < min_val) | (data[column] > max_val): false on nan
OutOfRange(f, c) ==
    ~IsNull(c) /\ (c.v < sensor_ranges[f][1] * Unit \/ c.v > sensor_ranges[f][2] * Unit)

\* the scrub without its closing fill
remove_invalid_values_unfilled(f, col) ==
    AsSeq([i \in DOMAIN col |-> IF OutOfRange(f, col[i]) THEN PyNan ELSE col[i]])

\* _remove_invalid_values, lines 183-193
remove_invalid_values(f, col) ==
    fill_missing_values(f, AsSeq([i \in DOMAIN col |->
                                      IF OutOfRange(f, col[i]) THEN PyNan ELSE col[i]]))

\* the numbers of a column in ascending order
RECURSIVE SortedNumbers(_)
SortedNumbers(col) ==
    IF col = << >> THEN << >>
    ELSE LET i == CHOOSE j \in DOMAIN col : \A k \in DOMAIN col : col[j].v <= col[k].v
         IN  <<col[i].v>> \o
             SortedNumbers(AsSeq([k \in 1..(Len(col) - 1) |->
                                      IF k < i THEN col[k] ELSE col[k + 1]]))

\* four times Series.quantile(quarters / 4), linear interpolation between
\* the two nearest order statistics
Quantile4(col, quarters) ==
    LET sorted == SortedNumbers(SelectSeq(col, LAMBDA c : ~IsNull(c)))
        pos == (Len(sorted) - 1) * quarters
        lo == pos \div 4 + 1
        frac == pos % 4
    IN  IF frac = 0 THEN 4 * sorted[lo]
        ELSE 4 * sorted[lo] + frac * (sorted[lo + 1] - sorted[lo])

\* self.iqr_multiplier = 1.5, as a ratio
iqr_multiplier == <<3, 2>>

\* (data[column] < lower_bound) | (data[column] > upper_bound), with Q1 and
\* Q3 four times the quartiles and both sides multiplied by
\* 4 * iqr_multiplier[2]
IsOutlier(Q1, Q3, c) ==
    LET IQR == Q3 - Q1
        lower_bound == iqr_multiplier[2] * Q1 - iqr_multiplier[1] * IQR
        upper_bound == iqr_multiplier[2] * Q3 + iqr_multiplier[1] * IQR
    IN  ~IsNull(c) /\ (4 * iqr_multiplier[2] * c.v < lower_bound
                        \/ 4 * iqr_multiplier[2] * c.v > upper_bound)

\* the IQR test runs on a column of any length
remove_outliers_unguarded(f, col) ==
    fill_missing_values(f,
        LET Q1 == Quantile4(col, 1)
            Q3 == Quantile4(col, 3)
        IN  AsSeq([i \in DOMAIN col |->
                      IF IsOutlier(Q1, Q3, col[i]) THEN PyNan ELSE col[i]]))

\* _remove_outliers, lines 201-217
remove_outliers(f, col) ==
    fill_missing_values(f,
        IF Len(SelectSeq(col, LAMBDA c : ~IsNull(c))) > 4
        THEN LET Q1 == Quantile4(col, 1)
                 Q3 == Quantile4(col, 3)
             IN  AsSeq([i \in DOMAIN col |->
                           IF IsOutlier(Q1, Q3, col[i]) THEN PyNan ELSE col[i]])
        ELSE col)

\* savgol_filter(x, window_length=5, polyorder=2), mode 'interp': the
\* least-squares parabola through a window of five points, read at the
\* window's k-th point; the weights are 35ths
SavgolWeights ==
    << <<31, 9, 0 - 3, 0 - 5, 3>>,
       <<9, 13, 12, 6, 0 - 5>>,
       <<0 - 3, 12, 17, 12, 0 - 3>>,
       <<0 - 5, 6, 12, 13, 9>>,
       <<3, 0 - 5, 0 - 3, 9, 31>> >>

Dot5(w, col, first) ==
    w[1] * col[first].v + w[2] * col[first + 1].v + w[3] * col[first + 2].v
        + w[4] * col[first + 3].v + w[5] * col[first + 4].v

\* the first and last two points are read off the parabola through the first
\* and last five; every other point off the one through its own window
savgol_filter(col) ==
    LET n == Len(col)
    IN  AsSeq([i \in DOMAIN col |->
                  IF i <= 2 THEN Num(Dot5(SavgolWeights[i], col, 1) \div 35)
                  ELSE IF i >= n - 1
                       THEN Num(Dot5(SavgolWeights[5 - (n - i)], col, n - 4) \div 35)
                       ELSE Num(Dot5(SavgolWeights[3], col, i - 2) \div 35)])

\* _apply_smoothing, lines 226-243 (window_length = min(5, len) is 5 here)
apply_smoothing(col) == IF Len(col) < 5 THEN col ELSE savgol_filter(col)

\* the smoothing stage runs whether it was asked for or not
SmoothingAppliesUnasked(f, smooth_data) == Len(f) > 5

\* line 57: if smooth_data and len(cleaned_data) > 5
SmoothingApplies(f, smooth_data) == smooth_data /\ Len(f) > 5

\* line 61, sort_values('timestamp').reset_index(drop=True): every ordering
\* by timestamp, rows of equal timestamp in any order (quicksort)
RECURSIVE SortByTimestamp(_)
SortByTimestamp(f) ==
    IF f = << >> THEN {<< >>}
    ELSE UNION {{<<f[i]>> \o g :
                    g \in SortByTimestamp(AsSeq([k \in 1..(Len(f) - 1) |->
                                                    IF k < i THEN f[k] ELSE f[k + 1]]))} :
                i \in {j \in DOMAIN f : \A k \in DOMAIN f : f[j].ts <= f[k].ts}}

\* clean_data, lines 45-58: the frame the four stages leave, each stage
\* writing into the frame it is handed
clean_stages(data, remove_outliers_, fill_missing, smooth_data) ==
    LET c0 == Col(data)
        c1 == IF fill_missing THEN fill_missing_values(CleanColumn, c0) ELSE c0
        c2 == remove_invalid_values(CleanColumn, c1)
        c3 == IF remove_outliers_ THEN remove_outliers(CleanColumn, c2) ELSE c2
        c4 == IF SmoothingApplies(data, smooth_data) THEN apply_smoothing(c3) ELSE c3
    IN  SetCol(data, c4)

\* clean_data, lines 40-63: the frames it may return
clean_data(data, remove_outliers_, fill_missing, smooth_data) ==
    IF data = EmptyFrame THEN {data}
    ELSE SortByTimestamp(clean_stages(data, remove_outliers_, fill_missing, smooth_data))

\* the stages work on the caller's frame itself
CallerFrameAliased(data, worked) == IF data = EmptyFrame THEN data ELSE worked

\* line 43, cleaned_data = data.copy(): the stages write into the copy,
\* and the frame the caller passed stays as it was
CallerFrame(data, worked) == data

\* ---------------------------------------------------------------- its calls
InitClean ==
    /\ StoreInit
    /\ phase = "called"
    /\ input \in [data : Snapshots, remove_outliers : BOOLEAN,
                  fill_missing : BOOLEAN, smooth_data : BOOLEAN]
    /\ output = << >>

\* cleaned = processor.clean_data(snapshot, options)
Clean ==
    /\ phase = "called"
    /\ \E g \in clean_data(input.data, input.remove_outliers, input.fill_missing,
                           input.smooth_data) : output' = <<g>>
    /\ input' = [input EXCEPT !.data =
                    CallerFrame(input.data,
                                clean_stages(input.data, input.remove_outliers,
                                             input.fill_missing, input.smooth_data))]
    /\ phase' = "cleaned"
    /\ UNCHANGED vars

\* clean_data again, on what it returned, with the same options
CleanAgain ==
    /\ phase = "cleaned"
    /\ \E g \in clean_data(output[1], input.remove_outliers, input.fill_missing,
                           input.smooth_data) :
          output' = <<CallerFrame(output[1],
                                  clean_stages(output[1], input.remove_outliers,
                                               input.fill_missing, input.smooth_data)), g>>
    /\ phase' = "cleaned again"
    /\ UNCHANGED <<input, vars>>

NextClean == Clean \/ CleanAgain

CleanSpec == InitClean /\ [][NextClean]_allvars

\* ---------------------------------------------------------------- properties
Count(f, row) == Cardinality({i \in DOMAIN f : f[i] = row})

\* the same rows, ordered by timestamp, rows of equal timestamp in any order
SameUpToTies(f, g) ==
    /\ Len(f) = Len(g)
    /\ IsSorted(f) /\ IsSorted(g)
    /\ \A i \in DOMAIN f : Count(f, f[i]) = Count(g, f[i])

DistinctTimestamps(f) == \A i, j \in DOMAIN f : i # j => f[i].ts # f[j].ts

\* C14, as claimed: for every snapshot and every combination of the options,
\* cleaning what clean returned, with the same options, returns it unchanged
C14_CleanIdempotent ==
    phase = "cleaned again" => output[2] = output[1]

\* C14, amended: with removeOutliers and smooth both off, cleaning what
\* clean returned returns the same rows, in the same order when all
\* timestamps differ and with rows of equal timestamp in any order otherwise
C14_CleanIdempotentPlain ==
    (phase = "cleaned again" /\ ~input.remove_outliers /\ ~input.smooth_data) =>
        /\ SameUpToTies(output[1], output[2])
        /\ DistinctTimestamps(input.data) => output[2] = output[1]

C14_Witness ==
    /\ phase = "cleaned again"
    /\ ~input.remove_outliers /\ ~input.smooth_data
    /\ Len(input.data) = MaxDirtyRows
    /\ \E i, j \in DOMAIN input.data :
          IsNull(input.data[i].v) /\ OutOfRange(CleanColumn, input.data[j].v)
    /\ DistinctTimestamps(input.data)
    /\ output[1] # input.data
    /\ output[2] = output[1]

InValidRange(f, c) ==
    ~IsNull(c) /\ sensor_ranges[f][1] * Unit <= c.v /\ c.v <= sensor_ranges[f][2] * Unit

\* C15: for every non-empty snapshot and every combination of the options,
\* every sensor value clean returns lies inside the sensor's valid range
C15_CleanedInRange ==
    (phase = "cleaned" /\ input.data # EmptyFrame) =>
        \A i \in DOMAIN output[1] : InValidRange(CleanColumn, output[1][i].v)

\* ================================================================ analytics
\* src/analytics.py, class Analytics.  Its operations take a snapshot and
\* return a dict (a list for generate_insights).  The snapshot has the
\* store's columns; its four sensor columns hold the same cells here, so
\* what an operation finds for one sensor it finds for each of them.
\* Timestamps are in seconds, cells in whole units

\* longest snapshot whose cells take every value below
MaxAnalyticsRows == 4
\* length of the long snapshots, the shortest whose "last 10%" is two rows
LongRows == 20
\* length of the snapshots between: more than ten rows, fewer than twenty
MidRows == 11

AnalyticsValues == {Num(0 - 9), Num(0), Num(7), Num(9), Num(11), Num(13), PyNan}
LongValues == {Num(0 - 1), Num(0), Num(1), PyNan}

\* snapshots at timestamps 1, 2, ...: the short ones, and longer ones that
\* repeat one cell up to their last two rows
AnalyticsSnapshots ==
    UNION {{[i \in 1..n |-> [ts |-> i, v |-> col[i]]] : col \in [1..n -> AnalyticsValues]} :
              n \in 0..MaxAnalyticsRows}
    \cup UNION {{[i \in 1..n |->
                    [ts |-> i, v |-> IF i < n - 1 THEN a ELSE IF i < n THEN b ELSE c]] :
                    a \in LongValues, b \in LongValues, c \in LongValues} :
                n \in {MidRows, LongRows}}

\* what an operation returns: a dict with its keys and, where the model
\* follows it, the entry it holds for a sensor; a list; or the exception
\* that left the operation
NoEntry == [none |-> TRUE]
Mapping(keys, entry) == [tag |-> "mapping", keys |-> keys, entry |-> entry, items |-> << >>]
List(items) == [tag |-> "list", keys |-> {}, entry |-> NoEntry, items |-> items]
Raised(error) == [tag |-> "raised", keys |-> {}, entry |-> NoEntry, items |-> <<error>>]

SensorColumns == {SensorFields[i] : i \in DOMAIN SensorFields}

\* data[column].dropna(), with the rows' timestamps
DropNa(f) == SelectSeq(f, LAMBDA r : ~IsNull(r.v))

RECURSIVE SeqSum(_)
SeqSum(s) == IF s = << >> THEN 0 ELSE Head(s) + SeqSum(Tail(s))

SumBy(f, Term(_)) == SeqSum(AsSeq([i \in DOMAIN f |-> Term(f[i])]))

\* ---------------------------------------------------------------- statistics
\* the summaries are computed for an empty frame as well
calculate_statistics_unguarded(data) ==
    Mapping({"descriptive", "skewness", "kurtosis", "correlation", "variance",
             "coefficient_of_variation"}, NoEntry)

\* calculate_statistics, lines 27-48
calculate_statistics(data) ==
    IF data = EmptyFrame THEN Mapping({}, NoEntry)
    ELSE Mapping({"descriptive", "skewness", "kurtosis", "correlation", "variance",
                  "coefficient_of_variation"}, NoEntry)

\* ---------------------------------------------------------------- trends
\* stats.linregress(time_vals, values): the sums it works from, each
\* multiplied by the number of points squared.  slope = Sxy / Sxx,
\* r = Sxy / sqrt(Sxx * Syy) (0 when Syy = 0),
\* std_err = sqrt((1 - r^2) * Syy / Sxx / (n - 2))
linregress(rows) ==
    LET n == Len(rows)
        Sx == SumBy(rows, LAMBDA r : r.ts)
        Sy == SumBy(rows, LAMBDA r : r.v.v)
    IN  [n |-> n,
         Sxx |-> n * SumBy(rows, LAMBDA r : r.ts * r.ts) - Sx * Sx,
         Syy |-> n * SumBy(rows, LAMBDA r : r.v.v * r.v.v) - Sy * Sy,
         Sxy |-> n * SumBy(rows, LAMBDA r : r.ts * r.v.v) - Sx * Sy]

\* abs(slope) < std_err, both sides squared and multiplied by Sxx^2 * (n - 2)
SlopeWithinError(reg) == (reg.n - 2) * reg.Sxy * reg.Sxy < reg.Sxx * reg.Syy - reg.Sxy * reg.Sxy

\* the direction is "Stable" whatever the regression found
DirectionStable(reg) == "Stable"

\* lines 81-86
Direction(reg) ==
    IF SlopeWithinError(reg) THEN "Stable"
    ELSE IF reg.Sxy > 0 THEN "Increasing"
    ELSE "Decreasing"

\* r_value**2 > tenths / 10
RSquaredAbove(reg, tenths) ==
    reg.Syy # 0 /\ 10 * reg.Sxy * reg.Sxy > tenths * reg.Sxx * reg.Syy

\* line 95
Confidence(reg) ==
    IF RSquaredAbove(reg, 7) THEN "High"
    ELSE IF RSquaredAbove(reg, 3) THEN "Medium"
    ELSE "Low"

\* analyze_trends, lines 60-98; linregress raises ValueError when all the
\* timestamps are one
analyze_trends(data) ==
    IF data = EmptyFrame \/ Len(data) < 3 THEN Mapping({}, NoEntry)
    ELSE LET data_sorted == CHOOSE g \in SortByTimestamp(data) : TRUE
             values == DropNa(data_sorted)
             reg == linregress(values)
         IN  IF Len(values) < 3 THEN Mapping({}, NoEntry)
             ELSE IF reg.Sxx = 0 THEN Raised("ValueError")
             ELSE Mapping(SensorColumns,
                          [slope |-> <<reg.Sxy, reg.Sxx>>,
                           regression |-> reg,
                           direction |-> Direction(reg),
                           confidence |-> Confidence(reg)])

\* ---------------------------------------------------------------- anomalies
AnomalyMethods == {"zscore", "iqr", "isolation"}

\* np.abs(stats.zscore(values)) > 3, squared and multiplied by n^2 times the
\* variance; a column of one value has z-scores nan, and none compares
ZScoreAbove3(values, c) ==
    LET n == Len(values)
        S == SumBy(values, LAMBDA r : r.v.v)
        SS == SumBy(values, LAMBDA r : r.v.v * r.v.v)
    IN  (n * c.v - S) * (n * c.v - S) > 9 * (n * SS - S * S)

\* lines 123-136: the positions flagged, or the plain list of the else branch
AnomalyIndices(values, method) ==
    IF method = "zscore"
    THEN [kind |-> "Index",
          at |-> {i \in DOMAIN values : ZScoreAbove3(values, values[i].v)}]
    ELSE IF method = "iqr"
    THEN LET col == Col(values)
             Q1 == Quantile4(col, 1)
             Q3 == Quantile4(col, 3)
         IN  [kind |-> "Index", at |-> {i \in DOMAIN values : IsOutlier(Q1, Q3, col[i])}]
    ELSE [kind |-> "list", at |-> {}]

\* anomaly_indices.tolist(): a method of Index, not of a Python list
ToListRaises(anomaly_indices) == anomaly_indices.kind = "list"

\* detect_anomalies, lines 111-145
detect_anomalies(data, method) ==
    IF data = EmptyFrame THEN Mapping({}, NoEntry)
    ELSE LET values == DropNa(data)
             anomaly_indices == AnomalyIndices(values, method)
         IN  IF Len(values) < 3 THEN Mapping({}, NoEntry)
             ELSE IF ToListRaises(anomaly_indices) THEN Raised("AttributeError")
             ELSE Mapping(SensorColumns,
                          [count |-> Cardinality(anomaly_indices.at),
                           indices |-> anomaly_indices.at])

\* ---------------------------------------------------------------- health
\* the largest r with r * r <= x
RECURSIVE IsqrtBetween(_, _, _)
IsqrtBetween(x, lo, hi) ==
    IF lo >= hi THEN lo
    ELSE LET mid == (lo + hi + 1) \div 2
         IN  IF mid * mid <= x THEN IsqrtBetween(x, mid, hi) ELSE IsqrtBetween(x, lo, mid - 1)

Isqrt(x) == IsqrtBetween(x, 0, 40000)

\* (values.std() / values.mean()) * 100 if values.mean() != 0 else 100, in
\* whole percent (rounded towards zero): nan when no value is present (the
\* mean is nan, and nan != 0) or just one is (the std is nan)
CoefficientOfVariation(cells) ==
    LET present == SelectSeq(cells, LAMBDA c : ~IsNull(c))
        m == Len(present)
        S == SeqSum(AsSeq([i \in DOMAIN present |-> present[i].v]))
        SS == SeqSum(AsSeq([i \in DOMAIN present |-> present[i].v * present[i].v]))
    IN  IF m = 0 THEN PyNan
        ELSE IF S = 0 THEN Num(100)
        ELSE IF m = 1 THEN PyNan
        ELSE LET size == Isqrt((10000 * m * (m * SS - S * S)) \div ((m - 1) * S * S))
             IN  Num(IF S > 0 THEN size ELSE 0 - size)

\* Python's min(a, b): b when b < a, else a; no comparison with nan is true
PyMin(a, b) ==
    IF ~IsNull(a) /\ ~IsNull(b) /\ b.v < a.v THEN b ELSE a

\* 100 - x
From100(x) == IF IsNull(x) THEN PyNan ELSE Num(100 - x.v)

\* the weighted sum of line 178, in tenths of a point
WeightedSum(availability, cv, recent_stability) ==
    LET a == From100(PyMin(cv, Num(100)))
        b == From100(PyMin(recent_stability, Num(100)))
    IN  IF IsNull(a) \/ IsNull(b) THEN PyNan
        ELSE Num(4 * availability + 3 * a.v + 3 * b.v)

\* the weighted sum as it comes, with no cap
HealthScoreUncapped(sum) == sum

\* line 178: min(100, <weighted sum>), in tenths of a point
HealthScore(sum) == PyMin(Num(1000), sum)

\* lines 181-188
HealthStatus(score) ==
    IF ~IsNull(score) /\ score.v >= 900 THEN "Excellent"
    ELSE IF ~IsNull(score) /\ score.v >= 700 THEN "Good"
    ELSE IF ~IsNull(score) /\ score.v >= 500 THEN "Fair"
    ELSE "Poor"

\* line 173: max(1, int(len(values) * 0.1))
RecentCount(n) == IF n \div 10 >= 1 THEN n \div 10 ELSE 1

\* calculate_sensor_health, lines 157-198
calculate_sensor_health(data) ==
    IF data = EmptyFrame THEN Mapping({}, NoEntry)
    ELSE LET values == Col(data)
             n == Len(values)
             availability == (100 * Len(SelectSeq(values, LAMBDA c : ~IsNull(c)))) \div n
             cv == CoefficientOfVariation(values)
             recent_values == SubSeq(values, n - RecentCount(n) + 1, n)
             recent_stability == CoefficientOfVariation(recent_values)
             health_score == HealthScore(WeightedSum(availability, cv, recent_stability))
         IN  Mapping(SensorColumns,
                     [recent_stability_cv |-> recent_stability,
                      health_score |-> health_score, status |-> HealthStatus(health_score)])

\* ---------------------------------------------------------------- correlations
\* data[numeric_columns].corr() between two columns holding the same cells:
\* 1 when at least two cells are present and they are not all equal, else nan
CorrelationIsOne(data) ==
    \E i, j \in DOMAIN data : ~IsNull(data[i].v) /\ ~IsNull(data[j].v) /\ data[i].v.v # data[j].v.v

\* analyze_correlations, lines 210-251
analyze_correlations(data) ==
    IF data = EmptyFrame THEN Mapping({}, NoEntry)
    ELSE IF Cardinality(SensorColumns) < 2 THEN Mapping({}, NoEntry)
    ELSE Mapping({"pairwise_correlations", "correlation_matrix"},
                 [strength |-> IF CorrelationIsOne(data) THEN "Strong" ELSE "Very Weak",
                  significant |-> CorrelationIsOne(data)])

\* ---------------------------------------------------------------- insights
Repeat(item, k) == [i \in 1..k |-> item]

\* stats_info['coefficient_of_variation'] > 50: std / mean > 1/2
HighVariability(data) ==
    LET present == DropNa(data)
        m == Len(present)
        S == SumBy(present, LAMBDA r : r.v.v)
        SS == SumBy(present, LAMBDA r : r.v.v * r.v.v)
    IN  m >= 2 /\ S > 0 /\ 4 * m * (m * SS - S * S) > (m - 1) * S * S

\* generate_insights, lines 263-313: the kinds of the insights, in order;
\* one per sensor, or per pair of sensors for the correlations
generate_insights(data) ==
    IF data = EmptyFrame THEN List(<<"No data available for analysis">>)
    ELSE LET trends == analyze_trends(data)
             correlations == analyze_correlations(data)
             health == calculate_sensor_health(data)
             sensors == Cardinality(SensorColumns)
             insights ==
                (IF trends.keys # {} /\ trends.entry.confidence = "High"
                 THEN Repeat("trend", sensors) ELSE << >>)
                \o (IF correlations.entry.significant
                    THEN Repeat("correlation", (sensors * (sensors - 1)) \div 2) ELSE << >>)
                \o (IF health.entry.status \in {"Poor", "Fair"}
                    THEN Repeat("health warning", sensors)
                    ELSE IF health.entry.status = "Excellent"
                         THEN Repeat("health excellent", sensors) ELSE << >>)
                \o (IF HighVariability(data) THEN Repeat("variability", sensors) ELSE << >>)
                \o (IF Len(data) > 100 THEN <<"sufficient data">> ELSE <<"more data">>)
         IN  IF trends.tag = "raised" THEN trends
             ELSE List(IF insights # << >> THEN insights ELSE <<"no significant patterns">>)

\* get_performance_metrics, lines 325-352 (detect_anomalies runs with its
\* default method)
get_performance_metrics(data) ==
    IF data = EmptyFrame THEN Mapping({}, NoEntry)
    ELSE IF detect_anomalies(data, "zscore").tag = "raised"
         THEN detect_anomalies(data, "zscore")
         ELSE Mapping({"data_collection_period", "average_collection_rate",
                       "data_completeness", "anomaly_rate", "overall_system_health"},
                      NoEntry)

\* ---------------------------------------------------------------- its calls
AnalyticsOps ==
    {"calculate_statistics", "analyze_trends", "calculate_sensor_health",
     "analyze_correlations", "generate_insights", "get_performance_metrics"}

InitAnalytics ==
    /\ StoreInit
    /\ phase = "called"
    /\ input \in [op : AnalyticsOps, data : AnalyticsSnapshots, method : {"zscore"}]
                    \cup [op : {"detect_anomalies"}, data : AnalyticsSnapshots,
                          method : AnomalyMethods]
    /\ output = << >>

Answer(name, result) ==
    /\ phase = "called"
    /\ input.op = name
    /\ output' = result
    /\ phase' = "returned"
    /\ UNCHANGED <<input, vars>>

CalculateStatistics == Answer("calculate_statistics", calculate_statistics(input.data))
AnalyzeTrends == Answer("analyze_trends", analyze_trends(input.data))
DetectAnomalies == Answer("detect_anomalies", detect_anomalies(input.data, input.method))
CalculateSensorHealth == Answer("calculate_sensor_health", calculate_sensor_health(input.data))
AnalyzeCorrelations == Answer("analyze_correlations", analyze_correlations(input.data))
GenerateInsights == Answer("generate_insights", generate_insights(input.data))
GetPerformanceMetrics == Answer("get_performance_metrics", get_performance_metrics(input.data))

NextAnalytics ==
    \/ CalculateStatistics
    \/ AnalyzeTrends
    \/ DetectAnomalies
    \/ CalculateSensorHealth
    \/ AnalyzeCorrelations
    \/ GenerateInsights
    \/ GetPerformanceMetrics

AnalyticsSpec == InitAnalytics /\ [][NextAnalytics]_allvars

\* ---------------------------------------------------------------- properties
Answered(name) == phase = "returned" /\ input.op = name

\* C16, as claimed: every operation, given an empty snapshot, returns an
\* empty mapping or an empty list and does not raise
C16_EmptySnapshotEmptyResult ==
    (phase = "returned" /\ input.op \in AnalyticsOps \cup {"detect_anomalies"}
        /\ input.data = EmptyFrame) =>
            /\ output.tag \in {"mapping", "list"}
            /\ output.keys = {}
            /\ output.items = << >>

\* C16, amended: given an empty snapshot no operation raises; insight
\* generation returns a list holding the one record "no data available",
\* and every other operation returns an empty mapping
C16_EmptySnapshotNeutralResult ==
    (phase = "returned" /\ input.op \in AnalyticsOps \cup {"detect_anomalies"}
        /\ input.data = EmptyFrame) =>
            IF input.op = "generate_insights"
            THEN /\ output.tag = "list"
                 /\ output.items = <<"No data available for analysis">>
            ELSE /\ output.tag = "mapping"
                 /\ output.keys = {}

C16_Witness ==
    /\ Answered("generate_insights")
    /\ input.data = EmptyFrame
    /\ output.tag = "list"
    /\ Len(output.items) = 1

\* C17: anomaly detection with a method name outside {z-score, IQR} does not
\* raise, whatever the snapshot; for each sensor it reports it returns count
\* 0 and no flagged values
C17_UnknownMethodEmptyResult ==
    (Answered("detect_anomalies") /\ input.method \notin {"zscore", "iqr"}) =>
        /\ output.tag = "mapping"
        /\ output.keys # {} => (output.entry.count = 0 /\ output.entry.indices = {})

\* value = 2 * t + 5 on at least 3 rows (the timestamps are distinct)
IsLinearSeries(data) ==
    /\ Len(data) >= 3
    /\ DistinctTimestamps(data)
    /\ \A i \in DOMAIN data : data[i].v = Num(2 * data[i].ts + 5)

\* slope^2 < std_err^2, from the sums of the regression:
\* slope^2 = Sxy^2 / Sxx^2 and
\* std_err^2 = (Sxx * Syy - Sxy^2) / (Sxx^2 * (n - 2))
SlopeBelowStdErr(reg) ==
    reg.Sxy * reg.Sxy * (reg.n - 2) < reg.Sxx * reg.Syy - reg.Sxy * reg.Sxy

\* C19: on value = 2 * t + 5 trend analysis reports slope 2, direction
\* increasing and confidence high; and whenever it reports a trend, the
\* direction is stable iff |slope| < standard error, else increasing iff
\* slope > 0, else decreasing
C19_TrendOfLinearSeries ==
    Answered("analyze_trends") =>
        /\ IsLinearSeries(input.data) =>
              /\ output.tag = "mapping"
              /\ output.keys = SensorColumns
              /\ output.entry.slope[1] = 2 * output.entry.slope[2]
              /\ output.entry.direction = "Increasing"
              /\ output.entry.confidence = "High"
        /\ (output.tag = "mapping" /\ output.keys # {}) =>
              LET reg == output.entry.regression
                  slope_positive == (reg.Sxy > 0) = (reg.Sxx > 0) /\ reg.Sxy # 0
              IN  /\ output.entry.direction = "Stable" <=> SlopeBelowStdErr(reg)
                  /\ ~SlopeBelowStdErr(reg) =>
                        (output.entry.direction = "Increasing" <=> slope_positive)
                  /\ output.entry.direction \in {"Stable", "Increasing", "Decreasing"}

C19_Witness ==
    /\ Answered("analyze_trends")
    /\ IsLinearSeries(input.data)
    /\ Len(input.data) = MaxAnalyticsRows
    /\ output.entry.direction = "Increasing"
    /\ output.entry.slope = <<40, 20>>

\* C20: for every non-empty snapshot the health score of every sensor lies
\* within [0, 100] (the score is counted in tenths)
C20_HealthScoreInRange ==
    (Answered("calculate_sensor_health") /\ input.data # EmptyFrame) =>
        /\ output.tag = "mapping"
        /\ output.keys = SensorColumns
        /\ ~IsNull(output.entry.health_score)
        /\ 0 <= output.entry.health_score.v
        /\ output.entry.health_score.v <= 1000

C20_Witness ==
    /\ Answered("calculate_sensor_health")
    /\ Len(input.data) = LongRows
    /\ \E i \in DOMAIN input.data : IsNull(input.data[i].v)
    /\ SumBy(input.data, LAMBDA r : IF IsNull(r.v) THEN 0 ELSE r.v.v) < 0
    /\ output.entry.health_score.v > 0
    /\ output.entry.health_score.v < 1000

\* ---------------------------------------------------------------- export
\* C18: a request to export in an unsupported format ends in a failure the
\* caller can tell from a result (an exception), in every state of the
\* store, empty or not, and leaves the store's contents as they were
C18_UnsupportedExportFails ==
    [][ \A t \in Threads :
          (pc[t] = "get_data_for_export" /\ pc'[t] = "idle"
              /\ op[t].format \notin {"csv", "json"}) =>
                  /\ ret'[t].tag = "raised"
                  /\ Content' = Content
                  /\ dataRef' = dataRef ]_vars

\* ---------------------------------------------------------------- health of a constant column
\* every cell present and all cells equal
IsConstantColumn(data) ==
    /\ data # EmptyFrame
    /\ \A i \in DOMAIN data : ~IsNull(data[i].v) /\ data[i].v = data[1].v

\* C21: a column with every value present and all values equal (0 and
\* negative values included) gets health score exactly 100 and status
\* excellent, whatever the length of the snapshot
C21_ConstantColumnScores100 ==
    (Answered("calculate_sensor_health") /\ IsConstantColumn(input.data)) =>
        /\ output.entry.health_score = Num(1000)
        /\ output.entry.status = "Excellent"

\* ---------------------------------------------------------------- store queries
\* the reads that select or summarise: get_sensor_summary, get_recent_data,
\* get_data_by_timerange
QueryNames == {"get_sensor_summary", "get_recent_data", "get_data_by_timerange"}

QueryCalls(n) ==
    {[name |-> "add_reading", reading |-> r, format |-> "none"] : r \in Readings(n)}
        \cup {[name |-> nm, reading |-> NoRow, format |-> "none"] :
                nm \in {"get_all_data"} \cup QueryNames}

\* a thread calls add_reading, get_all_data or one of the queries; each
\* starts with `with self._lock:`
CallQuery(t) ==
    /\ pc[t] = "idle"
    /\ calls < MaxCalls
    /\ \E c \in QueryCalls(calls + 1) : op' = [op EXCEPT ![t] = c]
    /\ calls' = calls + 1
    /\ pc' = [pc EXCEPT ![t] = "acquire"]
    /\ ret' = [ret EXCEPT ![t] = NoRet]
    /\ pre' = [pre EXCEPT ![t] = EmptyFrame]
    /\ UNCHANGED <<heap, dataRef, lock, tmp, snap, applied>>
    /\ UNCHANGED pvars

\* self._data['timestamp'] >= <a tz-naive datetime>: TypeError when a
\* timestamp of the column is tz-aware
NaiveComparisonRaises(f) == \E i \in DOMAIN f : f[i].tz = "aware"

\* len(self._data[column].dropna())
CountNonMissing(f) == Cardinality({i \in DOMAIN f : f[i].temperature = "num"})

\* get_sensor_summary, lines 201-227, all inside `with self._lock:`: {} for an
\* empty store; else count, mean, min, max, std and latest of each column
\* and the metadata.  min() and max() of a timestamp column that mixes
\* tz-naive and tz-aware values raise TypeError, which reaches the caller
get_sensor_summary(f) ==
    IF f = EmptyFrame THEN Ret("empty_dict", 0, NoRow)
    ELSE IF ~Comparable(f) THEN Ret("raised", 0, NoRow)
    ELSE Ret("summary", CountNonMissing(f), f[Len(f)])

GetSensorSummary(t) ==
    /\ pc[t] = "get_sensor_summary"
    /\ LET r == get_sensor_summary(Content)
       IN  IF r.tag = "raised" THEN Raise(t, r) ELSE Return(t, r)
    /\ UNCHANGED <<heap, dataRef, op, snap, applied, calls>>
    /\ UNCHANGED pvars

\* line 91: self._data[self._data['timestamp'] >= cutoff_time]
get_recent_data(f, cutoff_time) == SelectSeq(f, LAMBDA r : r.ts >= cutoff_time)

\* lines 125-128: the rows with start_time <= timestamp <= end_time
get_data_by_timerange(f, start_time, end_time) ==
    SelectSeq(f, LAMBDA r : r.ts >= start_time /\ r.ts <= end_time)

\* the caller of t is handed a new frame holding the rows of f
ReturnFrame(t, f) ==
    /\ heap' = [heap EXCEPT ![CopyAddr(t)] = f]
    /\ snap' = [snap EXCEPT ![t] = CopyAddr(t)]
    /\ Return(t, Ret("frame", 0, NoRow))

\* get_recent_data, lines 86-92, all inside `with self._lock:`: a new empty
\* frame for an empty store; else the cutoff is read from the clock, the
\* rows are selected and the selection is copied
GetRecentData(t) ==
    /\ pc[t] = "get_recent_data"
    /\ IF Content = EmptyFrame
       THEN ReturnFrame(t, EmptyFrame)
       ELSE IF NaiveComparisonRaises(Content)
            THEN Raise(t, Ret("raised", 0, NoRow)) /\ UNCHANGED <<heap, snap>>
            ELSE \E cutoff_time \in 0..(MaxTime + 1) :
                    ReturnFrame(t, get_recent_data(Content, cutoff_time))
    /\ UNCHANGED <<dataRef, op, applied, calls>>
    /\ UNCHANGED pvars

\* get_data_by_timerange, lines 120-129, all inside `with self._lock:`; the
\* two tz-naive arguments are drawn where they are first used
GetDataByTimerange(t) ==
    /\ pc[t] = "get_data_by_timerange"
    /\ IF Content = EmptyFrame
       THEN ReturnFrame(t, EmptyFrame)
       ELSE IF NaiveComparisonRaises(Content)
            THEN Raise(t, Ret("raised", 0, NoRow)) /\ UNCHANGED <<heap, snap>>
            ELSE \E start_time, end_time \in 1..MaxTime :
                    ReturnFrame(t, get_data_by_timerange(Content, start_time, end_time))
    /\ UNCHANGED <<dataRef, op, applied, calls>>
    /\ UNCHANGED pvars

NextQuery ==
    \E t \in Threads :
        \/ CallQuery(t)
        \/ Acquire(t)
        \/ AddConcat(t)
        \/ AddBindConcat(t)
        \/ AddSort(t)
        \/ AddBindSort(t)
        \/ AddTrim(t)
        \/ AddBindTrim(t)
        \/ GetAllData(t)
        \/ GetSensorSummary(t)
        \/ GetRecentData(t)
        \/ GetDataByTimerange(t)

QuerySpec == Init /\ [][NextQuery]_vars

\* C22: the lock is held only to copy the stored frame out or to insert and
\* trim: no thread that holds the lock is at the statistics of the summary
\* or at the row selection of the recent or time-range query
C22_NoComputationUnderLock ==
    \A t \in Threads : lock = t => pc[t] \notin QueryNames

\* ---------------------------------------------------------------- detect_outliers
\* length of the long columns, the shortest in which a z-score exceeds 3
ZRows == 11

DetectValues == {Num(0), Num(1), Num(3), Num(100), PyNan}

\* the columns handed to detect_outliers: the short ones, and long ones
\* that repeat one cell up to their last row
DetectColumns ==
    UNION {[1..n -> DetectValues] : n \in 0..MaxDirtyRows}
    \cup {[i \in 1..ZRows |-> IF i < ZRows THEN a ELSE b] :
             a \in DetectValues, b \in DetectValues}

\* the rows detect_outliers returns, by their positions
Frame(at) == [tag |-> "frame", keys |-> at, entry |-> NoEntry, items |-> << >>]

\* data.index[z_scores > self.outlier_threshold], line 84: z_scores has one
\* entry for each value dropna() kept, data.index one for each row, and a
\* boolean mask of another length than the index raises IndexError
MaskRaises(col, values) == Len(values) # Len(col)

\* detect_outliers, lines 75-100, for one column
detect_outliers(col) ==
    IF col = << >> THEN Frame({})
    ELSE LET values == DropNa(AsSeq([i \in DOMAIN col |-> [ts |-> i, v |-> col[i]]]))
             Q1 == Quantile4(col, 1)
             Q3 == Quantile4(col, 3)
         IN  IF MaskRaises(col, values) THEN Raised("IndexError")
             ELSE Frame({i \in DOMAIN col : ZScoreAbove3(values, col[i])}
                        \cup {i \in DOMAIN col : IsOutlier(Q1, Q3, col[i])})

\* ---------------------------------------------------------------- DataProcessor, one column
\* columns handed to _fill_missing_values, the first stage of clean_data: any
\* cells; to _remove_outliers, which runs after _remove_invalid_values:
\* numbers in range, none missing
ProcessorInputs ==
    UNION {{[op |-> "fill_missing_values", sensor |-> f, cells |-> col] :
                f \in SensorColumns, col \in [1..n -> CleanNumbers \cup DirtyValues]} :
           n \in 1..MaxDirtyRows}
    \cup UNION {{[op |-> "remove_outliers", sensor |-> CleanColumn, cells |-> col] :
                    col \in [1..n -> CleanNumbers]} : n \in 1..MaxRows}
    \cup {[op |-> "detect_outliers", sensor |-> CleanColumn, cells |-> AsSeq(col)] :
              col \in DetectColumns}

InitProcessor ==
    /\ StoreInit
    /\ phase = "called"
    /\ input \in ProcessorInputs
    /\ output = << >>

\* line 47: cleaned_data = self._fill_missing_values(cleaned_data)
FillMissingValues ==
    /\ phase = "called"
    /\ input.op = "fill_missing_values"
    /\ output' = fill_missing_values(input.sensor, input.cells)
    /\ phase' = "returned"
    /\ UNCHANGED <<input, vars>>

\* line 54: cleaned_data = self._remove_outliers(cleaned_data)
RemoveOutliers ==
    /\ phase = "called"
    /\ input.op = "remove_outliers"
    /\ output' = remove_outliers(input.sensor, input.cells)
    /\ phase' = "returned"
    /\ UNCHANGED <<input, vars>>

\* outliers = processor.detect_outliers(snapshot)
DetectOutliers ==
    /\ phase = "called"
    /\ input.op = "detect_outliers"
    /\ output' = detect_outliers(input.cells)
    /\ phase' = "returned"
    /\ UNCHANGED <<input, vars>>

NextProcessor == FillMissingValues \/ RemoveOutliers \/ DetectOutliers

ProcessorSpec == InitProcessor /\ [][NextProcessor]_allvars

ProcessorReturned(name) == phase = "returned" /\ input.op = name

\* v < Q1 - 1.5 * IQR or v > Q3 + 1.5 * IQR, the quartiles taken on col
OutsideBounds(col, c) ==
    LET Q1 == Quantile4(col, 1)
        Q3 == Quantile4(col, 3)
    IN  \/ 8 * c.v < 2 * Q1 - 3 * (Q3 - Q1)
        \/ 8 * c.v > 2 * Q3 + 3 * (Q3 - Q1)

\* C23: the outlier stage, on a column of more than 4 values, replaces
\* every value outside the IQR bounds of the entering column by a value
\* inside them and leaves every other value as it is; a column of 4 or
\* fewer values leaves the stage as it entered
C23_OutlierStageRepairs ==
    ProcessorReturned("remove_outliers") =>
        IF Len(input.cells) > 4
        THEN \A i \in DOMAIN input.cells :
                IF OutsideBounds(input.cells, input.cells[i])
                THEN ~IsNull(output[i]) /\ ~OutsideBounds(input.cells, output[i])
                ELSE output[i] = input.cells[i]
        ELSE output = input.cells

C23_Witness ==
    /\ ProcessorReturned("remove_outliers")
    /\ \E i \in DOMAIN input.cells :
          /\ OutsideBounds(input.cells, input.cells[i])
          /\ output[i] # input.cells[i]

\* the midpoints of the sensor ranges
RangeMidpoint ==
    [temperature |-> 25, weight |-> 500, moisture |-> 50, pressure |-> 100000]

\* C24: after the missing-value repair a cell that was present is as it
\* was; a missing cell holds the nearest earlier present value, or, when
\* none is earlier, the nearest later one, or, when the whole column was
\* missing, the midpoint of the sensor's range; no cell is missing
C24_FillRepairsMissing ==
    ProcessorReturned("fill_missing_values") =>
        LET col == input.cells
            present == {j \in DOMAIN col : ~IsNull(col[j])}
        IN  \A i \in DOMAIN col :
                /\ ~IsNull(output[i])
                /\ IF i \in present THEN output[i] = col[i]
                   ELSE IF \E j \in present : j < i
                   THEN \E j \in present :
                           /\ j < i
                           /\ \A k \in present : k < i => k <= j
                           /\ output[i] = col[j]
                   ELSE IF present # {}
                   THEN \E j \in present :
                           /\ \A k \in present : j <= k
                           /\ output[i] = col[j]
                   ELSE output[i] = Num(RangeMidpoint[input.sensor] * Unit)

\* a column with a leading gap, an interior gap and a present value between
C24_Witness ==
    /\ ProcessorReturned("fill_missing_values")
    /\ Len(input.cells) >= 4
    /\ IsNull(input.cells[1]) /\ ~IsNull(input.cells[2])
    /\ IsNull(input.cells[3]) /\ ~IsNull(input.cells[4])
    /\ input.cells[2] # input.cells[4]
    /\ output[1] = input.cells[2] /\ output[3] = input.cells[2]

\* |z| > 3, z taken over the present values of col, in integers
ZAbove3(col, c) ==
    LET present == {j \in DOMAIN col : ~IsNull(col[j])}
        n == Cardinality(present)
        S == SeqSum(AsSeq([j \in DOMAIN col |-> IF j \in present THEN col[j].v ELSE 0]))
        SS == SeqSum(AsSeq([j \in DOMAIN col |->
                               IF j \in present THEN col[j].v * col[j].v ELSE 0]))
    IN  (n * c.v - S) * (n * c.v - S) > 9 * (n * SS - S * S)

\* C25: detect_outliers returns, and what it returns is the rows whose
\* value has |z| > 3 over the column's present values or lies outside the
\* IQR bounds, for every snapshot, the ones with missing values included
C25_DetectOutliersExact ==
    ProcessorReturned("detect_outliers") =>
        /\ output.tag = "frame"
        /\ output.keys = {i \in DOMAIN input.cells :
                            /\ ~IsNull(input.cells[i])
                            /\ \/ ZAbove3(input.cells, input.cells[i])
                               \/ OutsideBounds(input.cells, input.cells[i])}

\* ceil(n / 10)
CeilTenth(n) == (n + 9) \div 10

\* C26: the recent stability is taken over the last max(1, ceil(n / 10))
\* values of a column of n readings, for every n >= 1
C26_RecentWindowIsCeilTenth ==
    (Answered("calculate_sensor_health") /\ input.data # EmptyFrame) =>
        LET values == Col(input.data)
            n == Len(values)
            window == IF CeilTenth(n) >= 1 THEN CeilTenth(n) ELSE 1
        IN  output.entry.recent_stability_cv =
                CoefficientOfVariation(SubSeq(values, n - window + 1, n))

\* C30: trend analysis reports "Decreasing" only for a strictly negative
\* slope; a sensor whose values are constant over time is never reported
\* as decreasing
C30_DecreasingOnlyBelowZero ==
    (Answered("analyze_trends") /\ output.tag = "mapping" /\ output.keys # {}
        /\ output.entry.direction = "Decreasing") =>
        output.entry.slope[1] < 0

TimestampOnce(f, i) == \A j \in DOMAIN f : f[j].ts = f[i].ts => j = i

CountTimestamp(f, time) == Cardinality({i \in DOMAIN f : f[i].ts = time})

\* C29: clean returns as many rows as it was given, with the same
\* timestamps as often, and leaves the snapshot it was given as it was
C29_CleanKeepsRows ==
    [][(phase = "called" /\ phase' = "cleaned") =>
          /\ input' = input
          /\ Len(output'[1]) = Len(input.data)
          /\ \A i \in DOMAIN input.data :
                CountTimestamp(output'[1], input.data[i].ts)
                    = CountTimestamp(input.data, input.data[i].ts)]_allvars

C29_Witness ==
    /\ phase = "cleaned"
    /\ Len(input.data) >= 2
    /\ ~DistinctTimestamps(input.data)
    /\ Len(output[1]) = Len(input.data)
    /\ Col(output[1]) # Col(input.data)

====
